---- MODULE Spec2Model ----
(***************************************************************************)
(* Client-side behaviour of the Coffee Shop front end: the phone input     *)
(* component (phone parsing, formatting, validation), and the forecast     *)
(* pages (request debouncing and cancellation, chart datasets), the form   *)
(* validation, the home page carousel and the cart page.                   *)
(* Strings are sequences of one-character strings.                         *)
(***************************************************************************)
EXTENDS Integers, Sequences, FiniteSets, TLC

VARIABLES
    fmt,        \* one application of formatDisplayNumber and its re-application
    phone,      \* the [data-phone-input] containers of the document
    event,      \* the DOM event dispatched last on a phone component
    chart,      \* the forecast chart: the server data and the plotted datasets
    page,       \* "sales" (initForecast) or "inventory" (initInventory)
    ctl,        \* the values of the page's form controls
    timers,     \* the pending setTimeout timers, with the time left to each
    timerSeq,   \* the number of timers created so far (the last timer id)
    debounceTimer,    \* the timer id held by debounceTimer (0: null)
    requests,         \* the fetch requests issued so far, oldest first
    fetchController,  \* the request whose AbortController is held (0: null)
    loading,    \* whether the loading indicator is shown
    view,       \* what the page shows: the response applied last
    burst,      \* history: the bursts of control events started, the requests
                \* issued by timers, the delay of the last control event and the
                \* time since it
    vform,      \* a form with phone fields and the validators run at its submit
    carousel,   \* the popular-products carousel of the home page
    cart        \* the cart page: the items shown and the requests under way

phoneVars == <<phone, event>>

forecastVars == <<page, ctl, timers, timerSeq, debounceTimer, requests,
                  fetchController, loading, view, burst>>

shopVars == <<vform, carousel, cart>>

vars == <<fmt, phone, event, chart, page, ctl, timers, timerSeq,
          debounceTimer, requests, fetchController, loading, view, burst,
          vform, carousel, cart>>

(***************************************************************************)
(* String helpers (JavaScript String methods used by the phone component). *)
(***************************************************************************)
DigitChars == <<"0", "1", "2", "3", "4", "5", "6", "7", "8", "9">>

\* /\d/
isDigit(ch) == \E i \in 1..Len(DigitChars) : DigitChars[i] = ch

\* /\s/ over the characters the model uses
isSpace(ch) == ch = " "

\* s.replace(/[^\d]/g, '')
stripNonDigits(s) == SelectSeq(s, isDigit)

notSpace(ch) == ~isSpace(ch)

\* s.replace(/\s/g, '')
stripSpaces(s) == SelectSeq(s, notSpace)

RECURSIVE trimStart(_)
trimStart(s) ==
    IF s # <<>> /\ isSpace(Head(s)) THEN trimStart(Tail(s)) ELSE s

RECURSIVE trimEnd(_)
trimEnd(s) ==
    IF s # <<>> /\ isSpace(s[Len(s)]) THEN trimEnd(SubSeq(s, 1, Len(s) - 1)) ELSE s

\* String.prototype.trim
trim(s) == trimEnd(trimStart(s))

\* String.prototype.startsWith
startsWith(s, p) == Len(p) <= Len(s) /\ SubSeq(s, 1, Len(p)) = p

\* String.prototype.slice(n), n >= 0
sliceFrom(s, n) == SubSeq(s, n + 1, Len(s))

\* String.prototype.slice(0, n), n >= 0
sliceTo(s, n) == SubSeq(s, 1, IF n < Len(s) THEN n ELSE Len(s))

(***************************************************************************)
(* The country table.                                                      *)
(***************************************************************************)
COUNTRIES ==
  <<
    [code |-> "UA", dial |-> <<"+", "3", "8", "0">>, maxLength |-> 9,
     format |-> <<"X", "X", " ", "X", "X", "X", " ", "X", "X", " ", "X", "X">>],
    [code |-> "PL", dial |-> <<"+", "4", "8">>, maxLength |-> 9,
     format |-> <<"X", "X", "X", " ", "X", "X", "X", " ", "X", "X", "X">>],
    [code |-> "US", dial |-> <<"+", "1">>, maxLength |-> 10,
     format |-> <<"X", "X", "X", " ", "X", "X", "X", " ", "X", "X", "X", "X">>],
    [code |-> "DE", dial |-> <<"+", "4", "9">>, maxLength |-> 11,
     format |-> <<"X", "X", "X", " ", "X", "X", "X", "X", " ", "X", "X", "X", "X">>],
    [code |-> "GB", dial |-> <<"+", "4", "4">>, maxLength |-> 10,
     format |-> <<"X", "X", "X", "X", " ", "X", "X", "X", "X", "X", "X">>],
    [code |-> "FR", dial |-> <<"+", "3", "3">>, maxLength |-> 9,
     format |-> <<"X", " ", "X", "X", " ", "X", "X", " ", "X", "X", " ", "X", "X">>],
    [code |-> "IT", dial |-> <<"+", "3", "9">>, maxLength |-> 10,
     format |-> <<"X", "X", "X", " ", "X", "X", "X", " ", "X", "X", "X", "X">>],
    [code |-> "CZ", dial |-> <<"+", "4", "2", "0">>, maxLength |-> 9,
     format |-> <<"X", "X", "X", " ", "X", "X", "X", " ", "X", "X", "X">>],
    [code |-> "ES", dial |-> <<"+", "3", "4">>, maxLength |-> 9,
     format |-> <<"X", "X", "X", " ", "X", "X", "X", " ", "X", "X", "X">>],
    [code |-> "NL", dial |-> <<"+", "3", "1">>, maxLength |-> 9,
     format |-> <<"X", " ", "X", "X", "X", "X", " ", "X", "X", "X", "X">>]
  >>

DEFAULT_COUNTRY_CODE == "UA"

CountryIdx == 1..Len(COUNTRIES)

\* COUNTRIES.find(c => c.code === code) || COUNTRIES[0], as an index
findByCode(code) ==
    IF \E i \in CountryIdx : COUNTRIES[i].code = code
    THEN CHOOSE i \in CountryIdx :
             /\ COUNTRIES[i].code = code
             /\ \A j \in CountryIdx : COUNTRIES[j].code = code => i <= j
    ELSE 1

\* the fallback of `country.format || 'XXX XXX XXX'`
FallbackFormat == <<"X", "X", "X", " ", "X", "X", "X", " ", "X", "X", "X">>

(***************************************************************************)
(* formatDisplayNumber: the format loop, then the remaining digits.        *)
(***************************************************************************)
RECURSIVE formatLoop(_, _, _, _, _)
formatLoop(format, number, i, digitIndex, result) ==
    IF i <= Len(format) /\ digitIndex <= Len(number)
    THEN IF format[i] = "X"
         THEN formatLoop(format, number, i + 1, digitIndex + 1,
                         Append(result, number[digitIndex]))
         ELSE formatLoop(format, number, i + 1, digitIndex,
                         Append(result, format[i]))
    ELSE [result |-> result, digitIndex |-> digitIndex]

\* a formatter that forgets the digits beyond the country's format
formatDisplayNumberTruncating(number, country) ==
    LET digits == stripNonDigits(number)
        format == IF country.format # <<>> THEN country.format ELSE FallbackFormat
    IN  IF digits = <<>> THEN <<>>
        ELSE trim(formatLoop(format, digits, 1, 1, <<>>).result)

formatDisplayNumber(number, country) ==
    LET digits == stripNonDigits(number)
        format == IF country.format # <<>> THEN country.format ELSE FallbackFormat
        loop   == formatLoop(format, digits, 1, 1, <<>>)
    IN  IF digits = <<>> THEN <<>>
        ELSE trim(loop.result \o SubSeq(digits, loop.digitIndex, Len(digits)))

(***************************************************************************)
(* parsePhoneNumber: the first country whose dial code starts the value.   *)
(***************************************************************************)
\* the first of the countries S in table order, 0 when there is none
firstMatch(S) ==
    IF S # {} THEN CHOOSE i \in S : \A j \in S : i <= j ELSE 0

\* the number is formatted with the dial code still in it
parsePhoneNumberKeepsDial(raw) ==
    LET value == trim(raw)
        m1 == firstMatch({i \in CountryIdx : startsWith(value, COUNTRIES[i].dial)})
    IN  IF m1 # 0
        THEN [countryCode |-> COUNTRIES[m1].code,
              number |-> formatDisplayNumber(value, COUNTRIES[m1])]
        ELSE [countryCode |-> DEFAULT_COUNTRY_CODE,
              number |-> stripNonDigits(value)]

parsePhoneNumber(raw) ==
    LET value == trim(raw)
        m1 == firstMatch({i \in CountryIdx : startsWith(value, COUNTRIES[i].dial)})
        valueNoPlus == sliceFrom(value, 1)
        m2 == firstMatch({i \in CountryIdx :
                             startsWith(valueNoPlus, sliceFrom(COUNTRIES[i].dial, 1))})
    IN  IF m1 # 0
        THEN [countryCode |-> COUNTRIES[m1].code,
              number |-> formatDisplayNumber(
                             sliceFrom(value, Len(COUNTRIES[m1].dial)), COUNTRIES[m1])]
        ELSE IF startsWith(value, <<"+">>) /\ m2 # 0
        THEN [countryCode |-> COUNTRIES[m2].code,
              number |-> formatDisplayNumber(
                             sliceFrom(valueNoPlus, Len(COUNTRIES[m2].dial) - 1),
                             COUNTRIES[m2])]
        ELSE [countryCode |-> DEFAULT_COUNTRY_CODE,
              number |-> stripNonDigits(value)]

(***************************************************************************)
(* Inputs: digit strings 1234567890123..., bare or with separators.        *)
(***************************************************************************)
MaxDigits == 12

sampleDigits(k) == [i \in 1..k |-> DigitChars[(i % 10) + 1]]

RECURSIVE separated(_, _, _)
\* s with sep after every n-th character
separated(s, sep, n) ==
    IF Len(s) <= n THEN s \o <<sep>>
    ELSE SubSeq(s, 1, n) \o <<sep>> \o separated(sliceFrom(s, n), sep, n)

Decorations == {"bare", "dashed", "spaced", "parens", "padded", "letters"}

decorated(s, how) ==
    CASE how = "bare"    -> s
      [] how = "dashed"  -> separated(s, "-", 3)
      [] how = "spaced"  -> separated(s, " ", 2)
      [] how = "parens"  -> <<"(">> \o sliceTo(s, 2) \o <<")", " ">> \o sliceFrom(s, 2)
      [] how = "padded"  -> <<" ">> \o s \o <<" ">>
      [] how = "letters" -> <<"a">> \o s \o <<"b">>

RawNumbers == {decorated(sampleDigits(k), how) : k \in 0..MaxDigits, how \in Decorations}

(***************************************************************************)
(* Specification SpecFormat: formatDisplayNumber applied to an input, then *)
(* to its own result.                                                      *)
(***************************************************************************)
FmtIdle == fmt = [stage |-> "idle"]

PhoneIdle == phone = <<>> /\ event = [type |-> "none", target |-> 0, prevented |-> {}]

ChartIdle == chart = [stage |-> "idle"]

FormIdle == vform = [stage |-> "idle"]

CarouselIdle == carousel = [stage |-> "idle"]

CartIdle == cart = [stage |-> "idle"]

ShopIdle == FormIdle /\ CarouselIdle /\ CartIdle

ForecastIdle ==
    /\ page = "none" /\ ctl = <<>>
    /\ timers = {} /\ timerSeq = 0 /\ debounceTimer = 0
    /\ requests = <<>> /\ fetchController = 0
    /\ loading = FALSE /\ view = [request |-> 0] /\ burst = [started |-> 0]

InitFormat ==
    /\ \E s \in RawNumbers, c \in CountryIdx :
           fmt = [stage |-> "input", input |-> s, country |-> c,
                  once |-> <<>>, twice |-> <<>>]
    /\ PhoneIdle /\ ChartIdle /\ ForecastIdle /\ ShopIdle

FormatOnce ==
    /\ fmt.stage = "input"
    /\ fmt' = [fmt EXCEPT !.stage = "once",
                          !.once = formatDisplayNumber(fmt.input, COUNTRIES[fmt.country])]
    /\ UNCHANGED <<phoneVars, chart, forecastVars, shopVars>>

FormatTwice ==
    /\ fmt.stage = "once"
    /\ fmt' = [fmt EXCEPT !.stage = "twice",
                          !.twice = formatDisplayNumber(fmt.once, COUNTRIES[fmt.country])]
    /\ UNCHANGED <<phoneVars, chart, forecastVars, shopVars>>

NextFormat == FormatOnce \/ FormatTwice

SpecFormat == InitFormat /\ [][NextFormat]_vars

\* C8: formatDisplayNumber only adds separators: the digits of the result are
\* the digits of the input in the same order, the result has no leading or
\* trailing space, and formatting the result again changes nothing.
C8_FormatOnlyAddsSeparators ==
    /\ fmt.stage \in {"once", "twice"} =>
           /\ stripNonDigits(fmt.once) = stripNonDigits(fmt.input)
           /\ fmt.once # <<>> => ~isSpace(fmt.once[1]) /\ ~isSpace(fmt.once[Len(fmt.once)])
    /\ fmt.stage = "twice" => fmt.twice = fmt.once

\* a number longer than the country's format has been formatted twice
C8_Witness ==
    /\ fmt.stage = "twice"
    /\ Len(stripNonDigits(fmt.input)) > COUNTRIES[fmt.country].maxLength
    /\ Len(fmt.once) > Len(stripNonDigits(fmt.input))

(***************************************************************************)
(* The phone component of one [data-phone-input] container.                *)
(***************************************************************************)
NoEvent == [type |-> "none", target |-> 0, prevented |-> {}]

\* a container as the server renders it
rawContainer(existing, required, form, phase) ==
    [phase |-> phase, initialized |-> FALSE, existing |-> existing,
     required |-> required, form |-> form,
     wrappers |-> 0, listeners |-> 0, options |-> 0,
     country |-> 0, number |-> <<>>, hidden |-> <<>>, maxlength |-> 0,
     invalid |-> FALSE, errEls |-> 0]

\* the value of container.querySelector('input[type="tel"], input[name*="phone"]')
existingInputValue(c) == IF c.wrappers > 0 THEN c.number ELSE c.existing

\* hiddenInput.value = currentCountry.dial + digitsOnly
updateHiddenInput(c) ==
    [c EXCEPT !.hidden = COUNTRIES[c.country].dial \o stripNonDigits(c.number)]

createPhoneInput(c) ==
    LET value  == existingInputValue(c)
        parsed == IF value # <<>> THEN parsePhoneNumber(value)
                  ELSE [countryCode |-> DEFAULT_COUNTRY_CODE, number |-> <<>>]
        i      == findByCode(parsed.countryCode)
    IN  [c EXCEPT !.existing = <<>>,   \* existingInput.remove()
                  !.wrappers = 1,
                  !.listeners = c.listeners + 1,
                  !.options = Len(COUNTRIES),
                  !.country = i,
                  !.number = parsed.number,
                  !.maxlength = COUNTRIES[i].maxLength + 3,
                  !.hidden = COUNTRIES[i].dial \o stripSpaces(parsed.number),
                  !.phase = "built"]

\* initPhoneInputs without the data-initialized guard
initContainerAlways(c) ==
    IF c.phase = "absent" THEN c
    ELSE createPhoneInput([c EXCEPT !.initialized = TRUE])

\* the body of the forEach of initPhoneInputs
initContainer(c) ==
    IF c.phase = "absent" \/ c.initialized THEN c
    ELSE createPhoneInput([c EXCEPT !.initialized = TRUE])

\* the country option click handler
selectCountry(c, i) ==
    updateHiddenInput([c EXCEPT !.country = i,
                                !.maxlength = COUNTRIES[i].maxLength + 3])

\* the second input listener: clear the error
clearError(c) ==
    IF c.form # 0 THEN [c EXCEPT !.invalid = FALSE, !.errEls = 0] ELSE c

\* the input listener of the number input, then the error-clearing one
onNumberInput(c, value) ==
    LET digitsOnly    == stripNonDigits(value)
        limitedDigits == sliceTo(digitsOnly, COUNTRIES[c.country].maxLength)
        formatted     == formatDisplayNumber(limitedDigits, COUNTRIES[c.country])
    IN  clearError(updateHiddenInput([c EXCEPT !.number = formatted]))

\* the blur listener
onBlur(c) ==
    updateHiddenInput(
        [c EXCEPT !.number = formatDisplayNumber(stripNonDigits(c.number),
                                                 COUNTRIES[c.country])])

MIN_DIGITS == 7

\* whether this component's submit handler calls e.preventDefault(); the
\* wrapper div never carries data-phone-required, so isRequired is the
\* required attribute createPhoneInput gave the number input
submitPrevents(c) ==
    LET digitsOnly == stripNonDigits(c.number)
        isRequired == c.required
    IN  \/ isRequired /\ Len(digitsOnly) < MIN_DIGITS
        \/ Len(digitsOnly) > 0 /\ Len(digitsOnly) < MIN_DIGITS

\* a submit handler that appends a message element at every failed submit
onSubmitAppending(c) ==
    IF submitPrevents(c)
    THEN [c EXCEPT !.invalid = TRUE, !.errEls = c.errEls + 1]
    ELSE [c EXCEPT !.invalid = FALSE, !.errEls = 0]

\* the submit listener of the form
onSubmit(c) ==
    IF submitPrevents(c)
    THEN [c EXCEPT !.invalid = TRUE, !.errEls = IF c.errEls = 0 THEN 1 ELSE c.errEls]
    ELSE [c EXCEPT !.invalid = FALSE, !.errEls = 0]

hasSubmitListener(c, f) == c.phase = "built" /\ c.form = f /\ f # 0

(***************************************************************************)
(* Actions on the phone components.                                        *)
(***************************************************************************)
Containers == DOMAIN phone

\* DOMContentLoaded, turbo:load or window.PhoneInput.init
InitPhoneInputs ==
    /\ phone' = [k \in Containers |-> initContainer(phone[k])]
    /\ event' = [type |-> "init", target |-> 0, prevented |-> {}]
    /\ UNCHANGED <<fmt, chart, forecastVars, shopVars>>

\* dynamically loaded content brings a container into the document
LoadContent(k) ==
    /\ phone[k].phase = "absent"
    /\ phone' = [phone EXCEPT ![k].phase = "raw"]
    /\ event' = NoEvent
    /\ UNCHANGED <<fmt, chart, forecastVars, shopVars>>

SelectCountry(k, countries) ==
    /\ phone[k].phase = "built"
    /\ \E i \in countries :
           phone' = [phone EXCEPT ![k] = selectCountry(phone[k], i)]
    /\ event' = [type |-> "select", target |-> k, prevented |-> {}]
    /\ UNCHANGED <<fmt, chart, forecastVars, shopVars>>

\* the characters a key press can add
TypedChars(c) ==
    {DigitChars[((Len(stripNonDigits(c.number)) + 1) % 10) + 1], " ", "-", "a"}

\* the user types a character at the end of the field (maxlength permitting)
TypeChar(k) ==
    /\ phone[k].phase = "built"
    /\ Len(phone[k].number) < phone[k].maxlength
    /\ \E ch \in TypedChars(phone[k]) :
           phone' = [phone EXCEPT
                        ![k] = onNumberInput(phone[k], Append(phone[k].number, ch))]
    /\ event' = [type |-> "input", target |-> k, prevented |-> {}]
    /\ UNCHANGED <<fmt, chart, forecastVars, shopVars>>

\* the user deletes the last character of the field
DeleteChar(k) ==
    /\ phone[k].phase = "built"
    /\ phone[k].number # <<>>
    /\ phone' = [phone EXCEPT
                    ![k] = onNumberInput(phone[k],
                               SubSeq(phone[k].number, 1, Len(phone[k].number) - 1))]
    /\ event' = [type |-> "input", target |-> k, prevented |-> {}]
    /\ UNCHANGED <<fmt, chart, forecastVars, shopVars>>

\* the user replaces the content of the field by pasted text, which the
\* browser cuts to maxlength
Paste(k, texts) ==
    /\ phone[k].phase = "built"
    /\ \E text \in texts :
           phone' = [phone EXCEPT
                        ![k] = onNumberInput(phone[k], sliceTo(text, phone[k].maxlength))]
    /\ event' = [type |-> "input", target |-> k, prevented |-> {}]
    /\ UNCHANGED <<fmt, chart, forecastVars, shopVars>>

Blur(k) ==
    /\ phone[k].phase = "built"
    /\ phone' = [phone EXCEPT ![k] = onBlur(phone[k])]
    /\ event' = [type |-> "blur", target |-> k, prevented |-> {}]
    /\ UNCHANGED <<fmt, chart, forecastVars, shopVars>>

\* a submit event of form f runs the submit listener of each of its components
Submit(f) ==
    /\ \E k \in Containers : hasSubmitListener(phone[k], f)
    /\ phone' = [k \in Containers |->
                    IF hasSubmitListener(phone[k], f) THEN onSubmit(phone[k])
                    ELSE phone[k]]
    /\ event' = [type |-> "submit", target |-> f,
                 prevented |-> {k \in Containers :
                                   hasSubmitListener(phone[k], f) /\ submitPrevents(phone[k])}]
    /\ UNCHANGED <<fmt, chart, forecastVars, shopVars>>

(***************************************************************************)
(* Specification SpecPhone: one container, rendered with any existing      *)
(* value, and every user event on its component.                           *)
(***************************************************************************)
Dials == {COUNTRIES[i].dial : i \in CountryIdx}

\* what can stand where a known dial code would: nothing, a lone or detached
\* plus sign, a dial code that is not in the table
UnknownDials == {<<>>, <<"+", " ">>, <<"+", "7">>}

PasteLengths == {0, 3, MIN_DIGITS, MaxDigits}

PasteTexts ==
    {decorated(sampleDigits(k), how) : k \in PasteLengths, how \in Decorations}

ExistingValues ==
    {pre \o dial \o body : pre \in {<<>>, <<" ">>}, dial \in Dials, body \in RawNumbers}
    \cup {dial \o body : dial \in UnknownDials, body \in PasteTexts}

Forms == {0, 1}

InitPhone ==
    /\ \E e \in ExistingValues, r \in BOOLEAN, f \in Forms :
           phone = <<rawContainer(e, r, f, "raw")>>
    /\ event = NoEvent
    /\ FmtIdle /\ ChartIdle /\ ForecastIdle /\ ShopIdle

NextPhone ==
    \/ InitPhoneInputs
    \/ \E k \in Containers : SelectCountry(k, CountryIdx)
    \/ \E k \in Containers : TypeChar(k)
    \/ \E k \in Containers : DeleteChar(k)
    \/ \E k \in Containers : Paste(k, PasteTexts)
    \/ \E k \in Containers : Blur(k)
    \/ \E f \in Forms : Submit(f)

SpecPhone == InitPhone /\ [][NextPhone]_vars

(***************************************************************************)
(* Specification SpecInit: several containers, some of them brought in by  *)
(* dynamically loaded content, and initPhoneInputs called at any time.     *)
(***************************************************************************)
NumContainers == 2

InitExisting == {<<>>, <<"+", "3", "3">> \o sampleDigits(MIN_DIGITS)}

InitPasteTexts == {sampleDigits(3), sampleDigits(MIN_DIGITS)}

InitCountries == {findByCode("UA"), findByCode("FR")}

InitInit ==
    /\ phone \in [1..NumContainers ->
                     {rawContainer(e, r, 1, ph) :
                         e \in InitExisting, r \in BOOLEAN, ph \in {"raw", "absent"}}]
    /\ event = NoEvent
    /\ FmtIdle /\ ChartIdle /\ ForecastIdle /\ ShopIdle

NextInit ==
    \/ InitPhoneInputs
    \/ \E k \in Containers : LoadContent(k)
    \/ \E k \in Containers : SelectCountry(k, InitCountries)
    \/ \E k \in Containers : Paste(k, InitPasteTexts)
    \/ \E k \in Containers : Blur(k)
    \/ \E f \in Forms : Submit(f)

SpecInit == InitInit /\ [][NextInit]_vars

(***************************************************************************)
(* Claims about the phone component.                                       *)
(***************************************************************************)
built(k) == phone[k].phase = "built"

digitCount(s) == Len(stripNonDigits(s))

DocumentedCountries == 20

\* C4: the country table rendered in the dropdown of every phone component has
\* at least 20 entries, each with its own dial code, maxLength and format.
C4_TwentyCountries ==
    \A k \in Containers :
        built(k) =>
            /\ phone[k].options >= DocumentedCountries
            /\ Len(COUNTRIES) >= DocumentedCountries
            /\ \A i, j \in CountryIdx : i # j => COUNTRIES[i].dial # COUNTRIES[j].dial

\* C5: the maxlength of the visible number input is the country's maxLength + 3
\* and a number of exactly maxLength digits, formatted for the selected
\* country, is at most that many characters long.
C5_MaxlengthAllowsFormat ==
    \A k \in Containers :
        built(k) =>
            LET country == COUNTRIES[phone[k].country]
            IN  /\ phone[k].maxlength = country.maxLength + 3
                /\ Len(formatDisplayNumber(sampleDigits(country.maxLength), country))
                       <= phone[k].maxlength

\* C6: in every state of a phone component the visible number, and the national
\* part of the hidden value, have at most as many digits as the maxLength of
\* the selected country.
C6_DigitCountLimited ==
    \A k \in Containers :
        built(k) =>
            LET country == COUNTRIES[phone[k].country]
            IN  /\ digitCount(phone[k].number) <= country.maxLength
                /\ Len(phone[k].hidden) - Len(country.dial) <= country.maxLength

\* C7: building a component from an existing value that starts with the dial
\* code of a country selects that country and gives the hidden value that dial
\* code followed by the digits of the rest, in order; no dial code is a prefix
\* of another; a value that starts with no known dial code selects UA and keeps
\* every digit of the value as the national number.
C7_ParsePreservesNumber ==
    [][\A k \in Containers :
          (phone[k].phase = "raw" /\ phone'[k].phase = "built") =>
              LET e  == trim(phone[k].existing)
                  c  == phone'[k]
                  ua == findByCode(DEFAULT_COUNTRY_CODE)
              IN  /\ \A i \in CountryIdx :
                         startsWith(e, COUNTRIES[i].dial) =>
                             /\ c.country = i
                             /\ c.hidden = COUNTRIES[i].dial \o
                                   stripNonDigits(sliceFrom(e, Len(COUNTRIES[i].dial)))
                  /\ (\A i \in CountryIdx : ~startsWith(e, COUNTRIES[i].dial)) =>
                         /\ COUNTRIES[c.country].code = "UA"
                         /\ stripNonDigits(c.number) = stripNonDigits(e)
                         /\ c.hidden = COUNTRIES[ua].dial \o stripNonDigits(e)
                  /\ \A i, j \in CountryIdx :
                         i # j => ~startsWith(COUNTRIES[i].dial, COUNTRIES[j].dial)
      ]_vars

\* a component built from a punctuated German number, longer than the format
C7_Witness ==
    \E k \in Containers :
        /\ built(k) /\ event.type = "init"
        /\ COUNTRIES[phone[k].country].code = "DE"
        /\ phone[k].hidden = COUNTRIES[phone[k].country].dial \o sampleDigits(MaxDigits)

\* a component built from a value with an unknown dial code
C7_WitnessDefault ==
    \E k \in Containers :
        /\ built(k) /\ event.type = "init"
        /\ phone[k].number = <<"7">> \o sampleDigits(MIN_DIGITS)

\* C9: every initialised container holds exactly one component with one set
\* of listeners; a call of initPhoneInputs builds the containers it sees for
\* the first time and leaves every initialised container, and its value,
\* unchanged.
C9_InitIdempotent ==
    /\ [](\A k \in Containers :
             phone[k].initialized => phone[k].wrappers = 1 /\ phone[k].listeners = 1)
    /\ [][event'.type = "init" =>
             \A k \in Containers :
                 /\ phone[k].initialized => phone'[k] = phone[k]
                 /\ phone[k].phase = "raw" =>
                        phone'[k].phase = "built" /\ phone'[k].initialized
         ]_vars

\* initPhoneInputs has run on a page where one component was already showing
\* a validation error and another container had just been loaded
C9_Witness ==
    /\ event.type = "init"
    /\ \E k \in Containers : built(k) /\ phone[k].invalid
    /\ \E k \in Containers : built(k) /\ ~phone[k].invalid /\ phone[k].number # <<>>
                             /\ COUNTRIES[phone[k].country].code = "FR"

\* C10: right after a submit event, a component of the form has prevented it,
\* is marked is-invalid and has exactly one error message iff its number has
\* fewer than 7 digits and the field is required or has at least one digit;
\* otherwise it has no mark, no message and has not prevented the submit.
\* Right after an input event the component has no mark and no message.
C10_SubmitValidation ==
    /\ event.type = "submit" =>
           \A k \in Containers :
               hasSubmitListener(phone[k], event.target) =>
                   LET n   == digitCount(phone[k].number)
                       bad == n < MIN_DIGITS /\ (phone[k].required \/ n >= 1)
                   IN  /\ (k \in event.prevented) <=> bad
                       /\ phone[k].invalid <=> bad
                       /\ phone[k].errEls = IF bad THEN 1 ELSE 0
    /\ event.type = "input" =>
           ~phone[event.target].invalid /\ phone[event.target].errEls = 0

\* a second failed submit in a row: a short number in an optional field
C10_Witness ==
    /\ event.type = "submit"
    /\ \E k \in event.prevented :
           /\ ~phone[k].required
           /\ digitCount(phone[k].number) = 3
           /\ phone[k].invalid

(***************************************************************************)
(* buildForecastChart: the datasets of the main chart of the sales         *)
(* forecast page, from the data the server sent.                           *)
(***************************************************************************)
MaxDates == 2

MaxForecastDates == 2

\* the numbers of a series, as the server computed them
SeriesValues == {3, 8}

\* a point the chart does not draw
null == 0 - 1

\* Array(n).fill(v); Array(-1) throws a RangeError
fill(n, v) == [i \in 1..n |-> v]

last(a) == a[Len(a)]

\* formatDate: the short label of a date
formatDate(d) == <<"label", d>>

\* allDates.map(formatDate)
mapFormatDate(ds) == [i \in 1..Len(ds) |-> formatDate(ds[i])]

\* a chart that pads the forecast series with one null too many
buildForecastChartShifted(data) ==
    IF Len(data.dates) - 1 < 0 THEN [error |-> "RangeError"]
    ELSE [error |-> "none",
          labels |-> mapFormatDate(data.dates \o data.forecast_dates),
          actual |-> data.actual \o fill(Len(data.forecast_dates), null),
          hwSmoothed |-> data.hw_smoothed \o fill(Len(data.forecast_dates), null),
          maSmoothed |-> data.ma_smoothed \o fill(Len(data.forecast_dates), null),
          hwForecast |-> fill(Len(data.dates), null)
                             \o <<last(data.hw_smoothed)>> \o data.hw_forecast,
          maForecast |-> fill(Len(data.dates), null)
                             \o <<last(data.ma_smoothed)>> \o data.ma_forecast,
          dividerIndex |-> Len(data.dates) - 1]

buildForecastChart(data) ==
    IF Len(data.dates) - 1 < 0 THEN [error |-> "RangeError"]
    ELSE [error |-> "none",
          labels |-> mapFormatDate(data.dates \o data.forecast_dates),
          actual |-> data.actual \o fill(Len(data.forecast_dates), null),
          hwSmoothed |-> data.hw_smoothed \o fill(Len(data.forecast_dates), null),
          maSmoothed |-> data.ma_smoothed \o fill(Len(data.forecast_dates), null),
          hwForecast |-> fill(Len(data.dates) - 1, null)
                             \o <<last(data.hw_smoothed)>> \o data.hw_forecast,
          maForecast |-> fill(Len(data.dates) - 1, null)
                             \o <<last(data.ma_smoothed)>> \o data.ma_forecast,
          dividerIndex |-> Len(data.dates) - 1]

\* the result of a forecast of m days from n days of history
ServerData ==
    UNION {[dates          : {[i \in 1..n |-> i]},
            forecast_dates : {[i \in 1..m |-> n + i]},
            actual         : [1..n -> SeriesValues],
            hw_smoothed    : [1..n -> SeriesValues],
            ma_smoothed    : [1..n -> SeriesValues],
            hw_forecast    : [1..m -> SeriesValues],
            ma_forecast    : [1..m -> SeriesValues]] :
           n \in 0..MaxDates, m \in 0..MaxForecastDates}

InitChart ==
    /\ \E d \in ServerData, canvas \in BOOLEAN :
           chart = [stage |-> "data", canvas |-> canvas, data |-> d,
                    plotted |-> [error |-> "none"]]
    /\ FmtIdle /\ PhoneIdle /\ ForecastIdle /\ ShopIdle

\* buildForecastChart(config.initialData) or buildForecastChart(result)
BuildForecastChart ==
    /\ chart.stage = "data"
    /\ chart' = IF ~chart.canvas THEN [chart EXCEPT !.stage = "nochart"]
                ELSE [chart EXCEPT !.stage = "built",
                                   !.plotted = buildForecastChart(chart.data)]
    /\ UNCHANGED <<fmt, phoneVars, forecastVars, shopVars>>

NextChart == BuildForecastChart

SpecChart == InitChart /\ [][NextChart]_vars

\* the k-th entry of a dataset, counted from 0 as the chart does
at(a, k) == a[k + 1]

\* C3: for server data with at least one date, every dataset has one entry per
\* label; the actual and smoothed series are the server's arrays followed by
\* nulls; each forecast series is null below index |dates|-1, is the last
\* smoothed value at index |dates|-1 (the divider index) and the server's
\* forecast values after it.
C3_ChartPlotsServerNumbers ==
    (chart.stage = "built" /\ Len(chart.data.dates) >= 1) =>
        LET d == chart.data
            c == chart.plotted
            n == Len(d.dates)
            m == Len(d.forecast_dates)
            padded(series, a) ==
                /\ Len(series) = n + m
                /\ \A k \in 0..(n + m - 1) :
                       at(series, k) = IF k < n THEN at(a, k) ELSE null
            joined(series, smoothed, forecast) ==
                /\ Len(series) = n + m
                /\ \A k \in 0..(n + m - 1) :
                       at(series, k) = IF k < n - 1 THEN null
                                       ELSE IF k = n - 1 THEN at(smoothed, n - 1)
                                       ELSE at(forecast, k - n)
        IN  /\ c.error = "none"
            /\ Len(c.labels) = n + m
            /\ c.dividerIndex = n - 1
            /\ padded(c.actual, d.actual)
            /\ padded(c.hwSmoothed, d.hw_smoothed)
            /\ padded(c.maSmoothed, d.ma_smoothed)
            /\ joined(c.hwForecast, d.hw_smoothed, d.hw_forecast)
            /\ joined(c.maForecast, d.ma_smoothed, d.ma_forecast)

\* a chart of the longest history and forecast, the two models differing at
\* the divider
C3_Witness ==
    /\ chart.stage = "built"
    /\ Len(chart.data.dates) = MaxDates
    /\ Len(chart.data.forecast_dates) = MaxForecastDates
    /\ chart.plotted.error = "none"
    /\ at(chart.plotted.hwForecast, MaxDates - 1) # at(chart.plotted.maForecast, MaxDates - 1)
    /\ at(chart.plotted.hwForecast, MaxDates) # at(chart.plotted.maForecast, MaxDates)

(***************************************************************************)
(* The forecast pages: the debounced, cancellable request for new data.    *)
(* initForecast (sales) and initInventoryForecast share the code; they     *)
(* differ in their controls.                                               *)
(***************************************************************************)
Sliders == {"alpha", "beta", "gamma"}

\* the controls whose values fetchForecast / fetchInventory send
Controls(pg) ==
    IF pg = "sales"
    THEN {"metric", "days_back", "forecast_days"} \cup Sliders
    ELSE {"days_back", "forecast_days", "lead_time", "service_level"} \cup Sliders

SliderDelay == 200

MetricDelay == 100

SelectDelay == 300

\* the delay each control's listener passes to debouncedFetch
delayOf(control) ==
    IF control \in Sliders THEN SliderDelay
    ELSE IF control = "metric" THEN MetricDelay
    ELSE SelectDelay

\* the values of a control: its initial value and another one
ControlValues == {0, 1}

\* at most MaxTimers timers and MaxRequests requests are created
MaxTimers == 2

MaxRequests == 2

\* time passes in steps of TimeStep
TimeStep == MetricDelay

\* the longest delay: the time since the last event is counted up to it
LongestDelay == SelectDelay

\* fetchController.abort(): a request whose response has not been read to the
\* end is rejected with an AbortError; a settled one is left as it is
abort(reqs, r) ==
    IF r # 0 /\ reqs[r].state \in {"pending", "reading"}
    THEN [reqs EXCEPT ![r].state = "aborted"]
    ELSE reqs

\* a fetch that does not abort the request before it
issueRequestNoAbort(reqs, controller, params) ==
    Append(reqs, [params |-> params, state |-> "pending"])

\* fetchForecast / fetchInventory up to the fetch call: abort the previous
\* request, then send the current control values
issueRequest(reqs, controller, params) ==
    Append(abort(reqs, controller), [params |-> params, state |-> "pending"])

\* the rest of fetchForecast / fetchInventory
Fetch ==
    /\ Len(requests) < MaxRequests
    /\ requests' = issueRequest(requests, fetchController, ctl)
    /\ fetchController' = Len(requests) + 1
    /\ loading' = TRUE

\* a debouncedFetch that leaves the previous timer running
armTimerKeepingOld(pending, held, id, delay) ==
    pending \cup {[id |-> id, left |-> delay]}

\* debouncedFetch: clearTimeout(debounceTimer), then setTimeout
armTimer(pending, held, id, delay) ==
    {t \in pending : t.id # held} \cup {[id |-> id, left |-> delay]}

\* an input or change event of a control
ControlEvent(control) ==
    /\ control \in Controls(page)
    /\ timerSeq < MaxTimers
    /\ \E v \in ControlValues :
           /\ v # ctl[control]
           /\ ctl' = [ctl EXCEPT ![control] = v]
    /\ timers' = armTimer(timers, debounceTimer, timerSeq + 1, delayOf(control))
    /\ timerSeq' = timerSeq + 1
    /\ debounceTimer' = timerSeq + 1
    /\ burst' = [burst EXCEPT !.started = IF timers = {} THEN @ + 1 ELSE @,
                              !.since = 0,
                              !.lastDelay = delayOf(control)]
    /\ UNCHANGED <<page, requests, fetchController, loading, view>>
    /\ UNCHANGED <<fmt, phoneVars, chart, shopVars>>

\* a timer whose delay has elapsed runs fetchForecast / fetchInventory
TimerFires ==
    /\ \E t \in timers :
           /\ t.left = 0
           /\ timers' = timers \ {t}
    /\ Fetch
    /\ burst' = [burst EXCEPT !.fetched = @ + 1]
    /\ UNCHANGED <<page, ctl, timerSeq, debounceTimer, view>>
    /\ UNCHANGED <<fmt, phoneVars, chart, shopVars>>

\* the submit listener of the form
FormSubmit ==
    /\ Fetch
    /\ UNCHANGED <<page, ctl, timers, timerSeq, debounceTimer, view, burst>>
    /\ UNCHANGED <<fmt, phoneVars, chart, shopVars>>

\* TimeStep ms pass: every pending timer comes closer to firing
Tick ==
    /\ \/ \E t \in timers : t.left > 0
       \/ burst.since < LongestDelay
    /\ timers' = {[id |-> t.id,
                   left |-> IF t.left > TimeStep THEN t.left - TimeStep ELSE 0] :
                  t \in timers}
    /\ burst' = [burst EXCEPT
                    !.since = IF @ + TimeStep < LongestDelay THEN @ + TimeStep
                              ELSE LongestDelay]
    /\ UNCHANGED <<page, ctl, timerSeq, debounceTimer, requests,
                   fetchController, loading, view>>
    /\ UNCHANGED <<fmt, phoneVars, chart, shopVars>>

\* the response of request r arrives: fetch resolves, resp.json() starts
ResponseArrives(r) ==
    /\ requests[r].state = "pending"
    /\ requests' = [requests EXCEPT ![r].state = "reading"]
    /\ UNCHANGED <<page, ctl, timers, timerSeq, debounceTimer,
                   fetchController, loading, view, burst>>
    /\ UNCHANGED <<fmt, phoneVars, chart, shopVars>>

\* resp.json() resolves and the page is updated from the data: the summary,
\* the tables, the charts and the badges from the response, the URL from the
\* parameters of the request
ResponseApplied(r) ==
    /\ requests[r].state = "reading"
    /\ requests' = [requests EXCEPT ![r].state = "applied"]
    /\ loading' = FALSE
    /\ view' = [request |-> r, data |-> requests[r].params, url |-> requests[r].params]
    /\ UNCHANGED <<page, ctl, timers, timerSeq, debounceTimer,
                   fetchController, burst>>
    /\ UNCHANGED <<fmt, phoneVars, chart, shopVars>>

\* the request fails (network error, invalid JSON): the catch handler hides
\* the loading indicator
ResponseFails(r) ==
    /\ requests[r].state \in {"pending", "reading"}
    /\ requests' = [requests EXCEPT ![r].state = "failed"]
    /\ loading' = FALSE
    /\ UNCHANGED <<page, ctl, timers, timerSeq, debounceTimer,
                   fetchController, view, burst>>
    /\ UNCHANGED <<fmt, phoneVars, chart, shopVars>>

InitForecast ==
    /\ page \in {"sales", "inventory"}
    /\ ctl = [c \in Controls(page) |-> 0]
    /\ timers = {} /\ timerSeq = 0 /\ debounceTimer = 0
    /\ requests = <<>> /\ fetchController = 0
    /\ loading = FALSE
    /\ view = [request |-> 0, data |-> ctl, url |-> ctl]
    /\ burst = [started |-> 0, fetched |-> 0, since |-> 0, lastDelay |-> 0]
    /\ FmtIdle /\ PhoneIdle /\ ChartIdle /\ ShopIdle

NextForecast ==
    \/ \E control \in Controls("sales") \cup Controls("inventory") : ControlEvent(control)
    \/ TimerFires
    \/ FormSubmit
    \/ Tick
    \/ \E r \in 1..Len(requests) : ResponseArrives(r)
    \/ \E r \in 1..Len(requests) : ResponseApplied(r)
    \/ \E r \in 1..Len(requests) : ResponseFails(r)

SpecForecast == InitForecast /\ [][NextForecast]_vars

\* C1: the page is only ever updated from the response of the request issued
\* last: a response is applied only while no newer request exists, and what
\* the page then shows is that request's data and parameters.
C1_OnlyLatestResponseApplied ==
    [][/\ \A r \in 1..Len(requests) :
              (requests[r].state # "applied" /\ requests'[r].state = "applied") =>
                  r = Len(requests) /\ r = fetchController
       /\ view' # view =>
              /\ view'.request = Len(requests)
              /\ requests'[view'.request].state = "applied"
              /\ view'.data = requests[Len(requests)].params
              /\ view'.url = requests[Len(requests)].params
      ]_vars

\* the response of an aborted first request is outstanding while a later
\* request has been applied
C1_Witness ==
    /\ Len(requests) >= 2
    /\ requests[1].state = "aborted"
    /\ view.request = Len(requests)
    /\ view.data # requests[1].params

\* C2: at most one debounce timer is pending; every burst of control events
\* issues exactly one request, when its timer fires; the timer fires only
\* after the delay of the burst's last event has elapsed since that event, and
\* the request carries the control values of that moment.
C2_Debounce ==
    /\ [](/\ Cardinality(timers) <= 1
          /\ burst.fetched + Cardinality(timers) = burst.started)
    /\ [][burst'.fetched # burst.fetched =>
              /\ burst.since >= burst.lastDelay
              /\ Len(requests') = Len(requests) + 1
              /\ requests'[Len(requests')].params = ctl
         ]_vars

\* a burst of two events, a select then a slider, has issued its one request
C2_Witness ==
    /\ timerSeq = 2
    /\ \E c \in DOMAIN ctl : c \notin Sliders /\ ctl[c] # 0
    /\ burst.started = 1 /\ burst.fetched = 1
    /\ burst.lastDelay = SliderDelay
    /\ Len(requests) = 1

(***************************************************************************)
(* The popular-products carousel of the home page.                         *)
(***************************************************************************)
SmallWidth == 576

MediumWidth == 768

LargeWidth == 992

AutoPlayDelay == 5000

ResizeDelay == 200

SwipeThreshold == 50

\* a carousel that shows five products from the medium width on
getVisibleCountWide(w) ==
    IF w < SmallWidth THEN 2
    ELSE IF w < MediumWidth THEN 3
    ELSE 5

getVisibleCount(w) ==
    IF w < SmallWidth THEN 2
    ELSE IF w < MediumWidth THEN 3
    ELSE IF w < LargeWidth THEN 4
    ELSE 5

\* Math.ceil(a / b) for a >= 0, b > 0
ceilDiv(a, b) == (a + b - 1) \div b

max(a, b) == IF a > b THEN a ELSE b

abs(a) == IF a < 0 THEN 0 - a ELSE a

getTotalPages(totalSlides, w) ==
    max(1, ceilDiv(totalSlides, getVisibleCount(w)))

\* goToPage: the new current page, which is also the active dot
goToPage(c, pg) ==
    LET pages == getTotalPages(c.totalSlides, c.width)
    IN  [c EXCEPT !.currentPage = ((pg % pages) + pages) % pages]

\* buildDots: one dot per page
buildDots(c) == [c EXCEPT !.dots = getTotalPages(c.totalSlides, c.width)]

\* a resetAutoPlay that starts a new interval without clearing the old one
resetAutoPlayLeaking(c) ==
    [c EXCEPT !.intervals = @ \cup {[id |-> c.timerSeq + 1, left |-> AutoPlayDelay]},
              !.timerSeq = @ + 1,
              !.autoPlayTimer = c.timerSeq + 1]

\* resetAutoPlay: clearInterval(autoPlayTimer), then setInterval(nextPage, 5000)
resetAutoPlay(c) ==
    [c EXCEPT !.intervals = {t \in @ : t.id # c.autoPlayTimer}
                                \cup {[id |-> c.timerSeq + 1, left |-> AutoPlayDelay]},
              !.timerSeq = @ + 1,
              !.autoPlayTimer = c.timerSeq + 1]

\* the widths on both sides of each breakpoint
SampleWidths ==
    {SmallWidth - 1, SmallWidth, MediumWidth - 1, MediumWidth, LargeWidth - 1, LargeWidth}

\* the screen positions of a touch
TouchXs == {100, 100 + SwipeThreshold, 101 + SwipeThreshold}

MaxSlides == 6

\* at most MaxIntervals interval timers are created
MaxIntervals == 3

\* time passes in fifths of the auto-play delay
CarouselStep == AutoPlayDelay \div 5

\* a manual navigation or an automatic advance: the history restarts
stepped(c, how) == [c EXCEPT !.last = how, !.since = 0]

\* the DOMContentLoaded handler: buildDots(); goToPage(0); resetAutoPlay()
InitCarousel ==
    /\ \E w \in SampleWidths, n \in 0..MaxSlides :
           carousel =
               IF n = 0 THEN [stage |-> "none", width |-> w, totalSlides |-> n]
               ELSE resetAutoPlay(goToPage(buildDots(
                        [stage |-> "ready", width |-> w, totalSlides |-> n,
                         currentPage |-> 0, dots |-> 0,
                         intervals |-> {}, timerSeq |-> 0, autoPlayTimer |-> 0,
                         resize |-> {}, touchStartX |-> 0,
                         last |-> "init", since |-> 0]), 0))
    /\ FmtIdle /\ PhoneIdle /\ ChartIdle /\ ForecastIdle /\ FormIdle /\ CartIdle

CarouselOthers == <<fmt, phoneVars, chart, forecastVars, vform, cart>>

canNavigate == carousel.stage = "ready" /\ carousel.timerSeq < MaxIntervals

PrevClick ==
    /\ canNavigate
    /\ carousel' = stepped(resetAutoPlay(goToPage(carousel, carousel.currentPage - 1)),
                           "prev")
    /\ UNCHANGED CarouselOthers

NextClick ==
    /\ canNavigate
    /\ carousel' = stepped(resetAutoPlay(goToPage(carousel, carousel.currentPage + 1)),
                           "next")
    /\ UNCHANGED CarouselOthers

DotClick ==
    /\ canNavigate
    /\ \E i \in 0..(carousel.dots - 1) :
           carousel' = stepped(resetAutoPlay(goToPage(carousel, i)), "dot")
    /\ UNCHANGED CarouselOthers

TouchStart ==
    /\ carousel.stage = "ready"
    /\ \E x \in TouchXs :
           carousel' = [carousel EXCEPT !.touchStartX = x, !.last = "touchstart"]
    /\ UNCHANGED CarouselOthers

\* touchend: a swipe of more than 50 px turns the page
TouchEnd ==
    /\ canNavigate
    /\ \E x \in TouchXs :
           LET diff == carousel.touchStartX - x
           IN  carousel' =
                   IF abs(diff) > SwipeThreshold
                   THEN stepped(resetAutoPlay(
                            goToPage(carousel,
                                     IF diff > 0 THEN carousel.currentPage + 1
                                     ELSE carousel.currentPage - 1)), "swipe")
                   ELSE [carousel EXCEPT !.last = "touchend"]
    /\ UNCHANGED CarouselOthers

\* a resize event: the window has some width, the rebuild is debounced
Resize ==
    /\ carousel.stage = "ready"
    /\ \E w \in SampleWidths :
           carousel' = [carousel EXCEPT !.width = w,
                                        !.resize = {ResizeDelay},
                                        !.last = "resize"]
    /\ UNCHANGED CarouselOthers

\* the resize timer: rebuild the dots for the new width
ResizeTimerFires ==
    /\ carousel.stage = "ready"
    /\ 0 \in carousel.resize
    /\ LET c == [carousel EXCEPT
                    !.resize = {},
                    !.currentPage =
                        IF @ >= getTotalPages(carousel.totalSlides, carousel.width)
                        THEN 0 ELSE @,
                    !.last = "rebuild"]
       IN  carousel' = goToPage(buildDots(c), c.currentPage)
    /\ UNCHANGED CarouselOthers

\* an interval timer fires: nextPage(), and the interval starts again
AutoPlayFires ==
    /\ carousel.stage = "ready"
    /\ \E t \in carousel.intervals :
           /\ t.left = 0
           /\ carousel' =
                  stepped([goToPage(carousel, carousel.currentPage + 1) EXCEPT
                              !.intervals = (@ \ {t})
                                  \cup {[id |-> t.id, left |-> AutoPlayDelay]}],
                          "auto")
    /\ UNCHANGED CarouselOthers

less(a, b) == IF a > b THEN a - b ELSE 0

\* CarouselStep ms pass
CarouselTick ==
    /\ carousel.stage = "ready"
    /\ carousel' = [carousel EXCEPT
           !.intervals = {[id |-> t.id, left |-> less(t.left, CarouselStep)] : t \in @},
           !.resize = {less(l, CarouselStep) : l \in @},
           !.since = IF @ + CarouselStep < AutoPlayDelay THEN @ + CarouselStep
                     ELSE AutoPlayDelay,
           !.last = "tick"]
    /\ UNCHANGED CarouselOthers

NextCarousel ==
    \/ PrevClick
    \/ NextClick
    \/ DotClick
    \/ TouchStart
    \/ TouchEnd
    \/ Resize
    \/ ResizeTimerFires
    \/ AutoPlayFires
    \/ CarouselTick

SpecCarousel == InitCarousel /\ [][NextCarousel]_vars

\* C12: the carousel shows 5 products exactly from width 992 on, 4 in
\* [768, 992), 3 in [576, 768) and 2 below 576; the number of pages is the
\* least p >= 1 with p * visible >= totalSlides, and the dots built for the
\* current width are that many.
C12_VisibleCountAndPages ==
    carousel.stage = "ready" =>
        LET w == carousel.width
            v == getVisibleCount(w)
            p == getTotalPages(carousel.totalSlides, w)
        IN  /\ v = 5 <=> w >= 992
            /\ v = 4 <=> (w >= 768 /\ w < 992)
            /\ v = 3 <=> (w >= 576 /\ w < 768)
            /\ v = 2 <=> w < 576
            /\ p >= 1 /\ p * v >= carousel.totalSlides
            /\ \A q \in 1..(p - 1) : q * v < carousel.totalSlides
            /\ carousel.resize = {} => carousel.dots = p

\* a tablet-wide window just below the desktop breakpoint, with two pages of
\* four, after the dots were rebuilt for it
C12_Witness ==
    /\ carousel.stage = "ready"
    /\ carousel.last = "rebuild"
    /\ carousel.width = 991
    /\ carousel.totalSlides = 5
    /\ carousel.dots = 2

manual == {"prev", "next", "dot", "swipe"}

\* C13: at most one auto-play interval is active; an automatic advance moves
\* from the current page to the next one, wrapping to page 0 after the last,
\* and happens no earlier than 5 s after the last manual navigation, automatic
\* advance or initialisation; every manual navigation leaves exactly one
\* interval, newly started with the full 5 s ahead.
C13_AutoPlay ==
    /\ [](carousel.stage = "ready" => Cardinality(carousel.intervals) = 1)
    /\ [][carousel.stage = "ready" =>
             /\ carousel'.last = "auto" =>
                    /\ carousel.since >= 5000
                    /\ LET pages == getTotalPages(carousel.totalSlides, carousel.width)
                       IN  carousel.currentPage < pages =>
                               carousel'.currentPage =
                                   IF carousel.currentPage = pages - 1 THEN 0
                                   ELSE carousel.currentPage + 1
             /\ carousel'.last \in manual =>
                    /\ carousel'.since = 0
                    /\ \A t \in carousel'.intervals :
                           t.left = 5000 /\ t.id = carousel'.autoPlayTimer
                    /\ carousel'.autoPlayTimer # carousel.autoPlayTimer
         ]_vars

\* the carousel has wrapped from its last page to page 0 by itself, after a
\* swipe had restarted the interval
C13_Witness ==
    /\ carousel.stage = "ready"
    /\ carousel.last = "auto"
    /\ carousel.currentPage = 0
    /\ carousel.dots = 3
    /\ carousel.timerSeq = 2
    /\ carousel.touchStartX # 0

(***************************************************************************)
(* The cart page: quantity buttons, removal, and the server's answers.     *)
(***************************************************************************)
digitValue(ch) == (CHOOSE i \in 1..Len(DigitChars) : DigitChars[i] = ch) - 1

RECURSIVE leadingDigits(_)
leadingDigits(s) ==
    IF s # <<>> /\ isDigit(Head(s)) THEN <<Head(s)>> \o leadingDigits(Tail(s))
    ELSE <<>>

RECURSIVE digitsValue(_)
digitsValue(ds) ==
    IF ds = <<>> THEN 0
    ELSE 10 * digitsValue(SubSeq(ds, 1, Len(ds) - 1)) + digitValue(ds[Len(ds)])

\* parseInt of a text that starts, after white space, with a digit
parseInt(s) == digitsValue(leadingDigits(trimStart(s)))

\* String(n) for an integer n >= 0
RECURSIVE toText(_)
toText(n) ==
    IF n < 10 THEN <<DigitChars[n + 1]>>
    ELSE toText(n \div 10) \o <<DigitChars[(n % 10) + 1]>>

\* the items of the cart
ItemIds == {1, 2}

\* at most MaxCartRequests requests are sent
MaxCartRequests == 2

Amounts == {10, 20}

Discounts == {0, 5}

CartCounts == 0..Cardinality(ItemIds)

noBadge == 0

\* the JSON bodies the server can answer with
CartAnswers ==
    {[success |-> FALSE]} \cup
    {[success |-> TRUE, item_total |-> it, subtotal |-> st, total |-> st,
      has_discount |-> d > 0, original_total |-> st, final_total |-> st - d,
      discount_amount |-> d, cart_count |-> n] :
         it \in Amounts, st \in Amounts, d \in Discounts, n \in CartCounts}

updateCartBadge(c, count) ==
    IF c.badge = noBadge THEN c
    ELSE [c EXCEPT !.badge = IF count > 0 THEN count ELSE noBadge]

\* the subtotal, totals and badge written from a successful answer
writeTotals(c, data) ==
    updateCartBadge(
        IF data.has_discount
        THEN [c EXCEPT !.subtotal = data.subtotal,
                       !.originalTotal = data.original_total,
                       !.total = data.final_total,
                       !.discountAmount = data.discount_amount]
        ELSE [c EXCEPT !.subtotal = data.subtotal, !.total = data.total],
        data.cart_count)

send(c, kind, i, q) ==
    [c EXCEPT !.sent = @ + 1,
              !.requests = @ \cup {[seq |-> c.sent + 1, kind |-> kind,
                                    item |-> i, quantity |-> q]}]

\* removeCartItem up to its fetch; confirmed is the user's answer to confirm()
removeCartItem(c, i, confirmed) ==
    IF ~confirmed THEN [c EXCEPT !.last = [op |-> "declined", item |-> i]]
    ELSE [send(c, "remove", i, 0) EXCEPT !.last = [op |-> "remove", item |-> i]]

\* an updateCartItem that asks the server for any new quantity
updateCartItemUnguarded(c, i, change, confirmed) ==
    IF ~c.items[i].shown THEN [c EXCEPT !.last = [op |-> "noitem", item |-> i]]
    ELSE [send(c, "update", i, parseInt(c.items[i].quantity) + change)
              EXCEPT !.last = [op |-> "update", item |-> i]]

\* updateCartItem up to its fetch
updateCartItem(c, i, change, confirmed) ==
    IF ~c.items[i].shown THEN [c EXCEPT !.last = [op |-> "noitem", item |-> i]]
    ELSE LET newQuantity == parseInt(c.items[i].quantity) + change
         IN  IF newQuantity < 1 THEN removeCartItem(c, i, confirmed)
             ELSE [send(c, "update", i, newQuantity)
                      EXCEPT !.last = [op |-> "update", item |-> i]]

\* the cart page as the server renders it: every quantity is at least 1
InitCart ==
    /\ \E qs \in [ItemIds -> {1, 2}] :
           cart = [stage |-> "ready",
                   items |-> [i \in ItemIds |->
                                 [shown |-> TRUE, quantity |-> toText(qs[i]),
                                  itemTotal |-> 10]],
                   subtotal |-> 20, total |-> 20, originalTotal |-> 20,
                   discountAmount |-> 0, badge |-> Cardinality(ItemIds),
                   requests |-> {}, sent |-> 0,
                   last |-> [op |-> "init", item |-> 0]]
    /\ FmtIdle /\ PhoneIdle /\ ChartIdle /\ ForecastIdle /\ FormIdle /\ CarouselIdle

CartOthers == <<fmt, phoneVars, chart, forecastVars, vform, carousel>>

cartReady == cart.stage = "ready"

\* a click on the plus or minus button of item i, with the answer the user
\* gives if asked to confirm
QuantityClick ==
    /\ cartReady
    /\ cart.sent < MaxCartRequests
    /\ \E i \in ItemIds, change \in {0 - 1, 1}, confirmed \in BOOLEAN :
           cart' = updateCartItem(cart, i, change, confirmed)
    /\ UNCHANGED CartOthers

\* a click on the remove button of item i
RemoveClick ==
    /\ cartReady
    /\ cart.sent < MaxCartRequests
    /\ \E i \in ItemIds, confirmed \in BOOLEAN :
           /\ cart.items[i].shown
           /\ cart' = removeCartItem(cart, i, confirmed)
    /\ UNCHANGED CartOthers

\* the answer to an update request arrives
UpdateAnswer ==
    /\ cartReady
    /\ \E r \in cart.requests, data \in CartAnswers :
           /\ r.kind = "update"
           /\ LET c == [cart EXCEPT !.requests = @ \ {r},
                                    !.last = [op |-> "answer", item |-> r.item]]
              IN  cart' =
                      IF data.success
                      THEN writeTotals(
                               [c EXCEPT !.items[r.item].quantity = toText(r.quantity),
                                         !.items[r.item].itemTotal = data.item_total],
                               data)
                      ELSE c
    /\ UNCHANGED CartOthers

\* the answer to a remove request arrives; an empty cart reloads the page
RemoveAnswer ==
    /\ cartReady
    /\ \E r \in cart.requests, data \in CartAnswers :
           /\ r.kind = "remove"
           /\ LET c == [cart EXCEPT !.requests = @ \ {r},
                                    !.last = [op |-> "answer", item |-> r.item]]
              IN  cart' =
                      IF ~data.success THEN c
                      ELSE IF data.cart_count = 0 THEN [stage |-> "reloading"]
                      ELSE writeTotals([c EXCEPT !.items[r.item].shown = FALSE], data)
    /\ UNCHANGED CartOthers

\* a request fails, or its answer is not JSON: the promise rejects
RequestFails ==
    /\ cartReady
    /\ \E r \in cart.requests :
           cart' = [cart EXCEPT !.requests = @ \ {r},
                                !.last = [op |-> "failure", item |-> r.item]]
    /\ UNCHANGED CartOthers

NextCart ==
    \/ QuantityClick
    \/ RemoveClick
    \/ UpdateAnswer
    \/ RemoveAnswer
    \/ RequestFails

SpecCart == InitCart /\ [][NextCart]_vars

\* what the cart page shows
shownCart(c) ==
    <<c.items, c.subtotal, c.total, c.originalTotal, c.discountAmount, c.badge>>

MinPhoneChars == 7

MaxPhoneChars == 20

\* [0-9\s\-\(\)]
isPhoneChar(ch) == isDigit(ch) \/ isSpace(ch) \/ ch \in {"-", "(", ")"}

\* PHONE_PATTERN.test(s): /^\+?[0-9\s\-\(\)]{7,20}$/
PHONE_PATTERN(s) ==
    LET body == IF s # <<>> /\ Head(s) = "+" THEN Tail(s) ELSE s
    IN  /\ Len(body) >= MinPhoneChars
        /\ Len(body) <= MaxPhoneChars
        /\ \A i \in 1..Len(body) : isPhoneChar(body[i])

\* value.replace(/[^0-9+\s\-\(\)]/g, '')
RECURSIVE restrictPhoneChars(_)
restrictPhoneChars(s) ==
    IF s = <<>> THEN <<>>
    ELSE IF isPhoneChar(Head(s)) \/ Head(s) = "+"
         THEN <<Head(s)>> \o restrictPhoneChars(Tail(s))
         ELSE restrictPhoneChars(Tail(s))

\* validatePhone: TRUE when the input passes
validatePhone(input) ==
    LET val == trim(input.value)
    IN  /\ ~(input.required /\ val = <<>>)
        /\ ~(val # <<>> /\ ~PHONE_PATTERN(val))

\* input names, as the words and separators they are made of
FieldNames == {<<"phone">>, <<"contact", "_", "phone">>, <<"email">>}

FieldTypes == {"tel", "text"}

\* the selector [name="phone"]
nameIs(name, word) == name = <<word>>

\* the selector [name*="phone"]
nameContains(name, word) == \E i \in 1..Len(name) : name[i] = word

\* input[type="tel"], input[name="phone"]: the fields the form validation selects
selectedByValidation(el) == el.type = "tel" \/ nameIs(el.name, "phone")

\* input[type="tel"], input[name*="phone"]: the fields the phone component
\* selects, and the form validation's comments describe
isPhoneField(el) == el.type = "tel" \/ nameContains(el.name, "phone")

\* the input elements of a field: the one of the template, or inside a built
\* phone component the visible number input and the hidden named input
elements(f) ==
    IF f.inside /\ f.built
    THEN {[type |-> "tel", name |-> <<>>], [type |-> "hidden", name |-> f.name]}
    ELSE {[type |-> f.type, name |-> f.name]}

\* the form validation's loop reaches the field: selected, and not inside a
\* [data-phone-input] container
validatedByForm(f) ==
    /\ ~f.inside
    /\ \E el \in elements(f) : selectedByValidation(el)

\* the phone component's submit handler covers the field
validatedByComponent(f) == f.inside /\ f.built

FieldValues ==
    {<<>>, sampleDigits(3), <<"+">> \o sampleDigits(MinPhoneChars),
     sampleDigits(MinPhoneChars - 1) \o <<"x">>}

\* the phone fields of the form
FieldIds == {1, 2}

InitValidation ==
    /\ \E fs \in [FieldIds -> [inside : BOOLEAN, type : FieldTypes, name : FieldNames,
                               required : BOOLEAN, value : {<<>>}]] :
           /\ \A k \in FieldIds : isPhoneField([type |-> fs[k].type, name |-> fs[k].name])
           /\ vform = [stage |-> "loading",
                       validation |-> FALSE,
                       fields |-> [k \in FieldIds |->
                                      [inside |-> fs[k].inside, type |-> fs[k].type,
                                       name |-> fs[k].name, required |-> fs[k].required,
                                       value |-> fs[k].value, built |-> FALSE,
                                       invalid |-> FALSE, checkedBy |-> {}]],
                       prevented |-> FALSE]
    /\ FmtIdle /\ PhoneIdle /\ ChartIdle /\ ForecastIdle /\ CarouselIdle /\ CartIdle

FormOthers == <<fmt, phoneVars, chart, forecastVars, carousel, cart>>

\* the form validation's DOMContentLoaded handler
AttachValidation ==
    /\ vform.stage # "idle"
    /\ ~vform.validation
    /\ vform' = [vform EXCEPT !.validation = TRUE, !.stage = "attached"]
    /\ UNCHANGED FormOthers

\* the phone component's DOMContentLoaded handler on the form's containers
BuildPhoneInputs ==
    /\ vform.stage # "idle"
    /\ \E k \in FieldIds : vform.fields[k].inside /\ ~vform.fields[k].built
    /\ vform' = [vform EXCEPT
           !.fields = [k \in FieldIds |->
                          IF @[k].inside THEN [@[k] EXCEPT !.built = TRUE] ELSE @[k]],
           !.stage = "built"]
    /\ UNCHANGED FormOthers

pageLoaded ==
    /\ vform.stage # "idle"
    /\ vform.validation
    /\ \A k \in FieldIds : vform.fields[k].inside => vform.fields[k].built

\* the user types a value; the form validation's input listener restricts it
EditField ==
    /\ pageLoaded
    /\ \E k \in FieldIds, v \in FieldValues :
           vform' = [vform EXCEPT
               !.fields[k].value =
                   IF validatedByForm(vform.fields[k]) THEN restrictPhoneChars(v) ELSE v,
               !.fields[k].invalid =
                   IF validatedByComponent(vform.fields[k]) THEN FALSE ELSE @,
               !.stage = "edited"]
    /\ UNCHANGED FormOthers

\* the field loses focus: live validation
BlurField ==
    /\ pageLoaded
    /\ \E k \in FieldIds :
           /\ validatedByForm(vform.fields[k])
           /\ vform' = [vform EXCEPT
                  !.fields[k].invalid = ~validatePhone(vform.fields[k]),
                  !.stage = "blurred"]
    /\ UNCHANGED FormOthers

\* one field at submit: who checked it, and with what outcome
submitField(f) ==
    LET byForm == validatedByForm(f)
        byComponent == validatedByComponent(f)
        failsForm == byForm /\ ~validatePhone(f)
        failsComponent ==
            byComponent /\ submitPrevents([number |-> f.value, required |-> f.required])
    IN  [f EXCEPT !.checkedBy = (IF byForm THEN {"validatePhone"} ELSE {})
                                    \cup (IF byComponent THEN {"component"} ELSE {}),
                  !.invalid = IF byForm THEN failsForm
                              ELSE IF byComponent THEN failsComponent
                              ELSE @]

\* the form is submitted: both submit listeners run
SubmitForm ==
    /\ pageLoaded
    /\ LET fields == [k \in FieldIds |-> submitField(vform.fields[k])]
       IN  vform' = [vform EXCEPT
               !.fields = fields,
               !.prevented = \E k \in FieldIds :
                                 fields[k].checkedBy # {} /\ fields[k].invalid,
               !.stage = "submitted"]
    /\ UNCHANGED FormOthers

NextValidation ==
    \/ AttachValidation
    \/ BuildPhoneInputs
    \/ EditField
    \/ BlurField
    \/ SubmitForm

SpecValidation == InitValidation /\ [][NextValidation]_vars

\* C11: at submit every phone field of the form is checked by exactly one
\* validator: a field inside a [data-phone-input] container by the phone
\* component's submit handler only, a field outside by validatePhone only.
C11_ExactlyOneValidator ==
    vform.stage = "submitted" =>
        \A k \in FieldIds :
            LET f == vform.fields[k]
            IN  /\ Cardinality(f.checkedBy) = 1
                /\ f.inside => f.checkedBy = {"component"}
                /\ ~f.inside => f.checkedBy = {"validatePhone"}

====
